---- MODULE Spec2Model ----
(***************************************************************************)
(* HSE TrolleyGAR scraper and colour-threshold analysis.                   *)
(*                                                                         *)
(*   get_colors/scrape_colors.py      extract_color, scrape_with_colors,   *)
(*                                    scrape_with_colors_v2                *)
(*   old_code/scrape_hse_data.py      scrape_hse_trolleygar (master row)   *)
(*   get_colors/analyze_boundaries.py analyze_hospital_thresholds,         *)
(*                                    find_exact_boundaries                *)
(*   scrape_date_range of scrape_colors.py and of scrape_hse_data.py       *)
(*                                                                         *)
(* Text is modelled by TLA+ strings; a nullable value is the empty tuple   *)
(* (None / NaN) or a one-element tuple holding the value.                  *)
(***************************************************************************)
EXTENDS Integers, Sequences, FiniteSets, TLC

VARIABLES
    classAttr,  \* extract_color: the cell's class attribute
    color,      \* extract_color: the returned colour, or Pending
    df,         \* analyze_boundaries: the rows of the CSV file
    apc,        \* analyze_boundaries: "load" | "analyzed"
    est,        \* analyze_boundaries: rows of analyze_hospital_thresholds' frame
    exact,      \* analyze_boundaries: rows of find_exact_boundaries' frame
    mode,       \* scraper: "daily" (scrape_hse_trolleygar), "v2" or "rows"
    reportDate, \* scraper: the date_str argument of the call
    layout,     \* scraper: the fetched page, as the layout PageOf builds its cells from
    data_row,   \* scrape_hse_trolleygar: Null or Some(index of the master row)
    returned,   \* scraper: [kind |-> "pending" | "None" | "frame", rows |-> records]
    phase,      \* scraper: "start" | "done"
    runner,     \* scrape_date_range: "colors" (scrape_colors.py) or "daily" (scrape_hse_data.py)
    start_date, \* scrape_date_range: the start_date argument
    end_date,   \* scrape_date_range: the end_date argument
    current,    \* scrape_date_range: the date the loop is at, [day, month, year]
    all_data,   \* scrape_date_range: all_data / all_dfs, the frames collected so far
    calls,      \* scrape_date_range: the requests.get and time.sleep calls made so far
    combined,   \* scrape_date_range: [kind |-> "pending" | "None" | "frame", rows], the returned value
    rpc,        \* scrape_date_range: "test" | "scrape" | "advance" | "return" | "done"
    csv_file,   \* persistence: Null (no file) or Some(the data lines of the CSV file)
    db_table,   \* persistence: Null (no table) or Some(the rows of trolleygar_data)
    hist,       \* persistence: the calls made so far, each with the store it left
    args,       \* __main__ of scrape_hse_data.py: the parsed command line
    cdf,        \* __main__: the local df, [kind |-> "unset" | "None" | "frame", rows]
    exit_status,\* __main__: Null while the process runs, Some(status) once it has exited
    cpc         \* __main__: "dispatch" | "scrape" | "save" | "range" | "clean" | "preview" | "exited"

classifierVars == <<classAttr, color>>
analysisVars == <<df, apc, est, exact>>
scraperVars == <<mode, reportDate, layout, data_row, returned, phase>>
rangeVars == <<runner, start_date, end_date, current, all_data, calls, combined, rpc>>
storeVars == <<csv_file, db_table, hist>>
cliVars == <<args, cdf, exit_status, cpc>>
vars == <<classifierVars, analysisVars, scraperVars, rangeVars, storeVars, cliVars>>

Pending == "pending"
Null == <<>>
Some(v) == <<v>>
IsNull(o) == o = <<>>
Val(o) == o[1]

Min2(a, b) == IF a <= b THEN a ELSE b
SetMin(S) == CHOOSE m \in S : \A n \in S : m <= n
SetMax(S) == CHOOSE m \in S : \A n \in S : m >= n
Range(s) == {s[k] : k \in 1..Len(s)}
SeqsUpTo(S, n) == UNION {[1..k -> S] : k \in 0..n}

(***************************************************************************)
(* Python str operations used by the code.                                 *)
(***************************************************************************)
StartsWith(s, p) == Len(s) >= Len(p) /\ SubSeq(s, 1, Len(p)) = p
EndsWith(s, p) == Len(s) >= Len(p) /\ SubSeq(s, Len(s) - Len(p) + 1, Len(s)) = p
\* p in s
Contains(s, p) == \E k \in 1..(Len(s) - Len(p) + 1) : SubSeq(s, k, k + Len(p) - 1) = p

UpperLetters == "ABCDEFGHIJKLMNOPQRSTUVWXYZ"
LowerLetters == "abcdefghijklmnopqrstuvwxyz"
LowerChar(c) ==
    IF \E k \in 1..Len(UpperLetters) : SubSeq(UpperLetters, k, k) = c
    THEN LET k == CHOOSE j \in 1..Len(UpperLetters) : SubSeq(UpperLetters, j, j) = c
         IN  SubSeq(LowerLetters, k, k)
    ELSE c

RECURSIVE Lower(_)
\* s.lower()
Lower(s) == IF Len(s) = 0 THEN ""
            ELSE LowerChar(SubSeq(s, 1, 1)) \o Lower(SubSeq(s, 2, Len(s)))

IsSpace(c) == c = " "

RECURSIVE LStrip(_)
LStrip(s) == IF Len(s) > 0 /\ IsSpace(SubSeq(s, 1, 1)) THEN LStrip(SubSeq(s, 2, Len(s))) ELSE s

RECURSIVE RStrip(_)
RStrip(s) == IF Len(s) > 0 /\ IsSpace(SubSeq(s, Len(s), Len(s)))
             THEN RStrip(SubSeq(s, 1, Len(s) - 1)) ELSE s

\* s.strip(), the effect of get_text(strip=True) on a cell holding one text node
Strip(s) == RStrip(LStrip(s))

RECURSIVE SplitFrom(_, _, _)
\* the words of s after position k, cur being the word read so far
SplitFrom(s, k, cur) ==
    IF k > Len(s) THEN (IF cur = "" THEN <<>> ELSE <<cur>>)
    ELSE IF IsSpace(SubSeq(s, k, k))
         THEN (IF cur = "" THEN <<>> ELSE <<cur>>) \o SplitFrom(s, k + 1, "")
         ELSE SplitFrom(s, k + 1, cur \o SubSeq(s, k, k))

\* s.split()
Split(s) == SplitFrom(s, 1, "")

(***************************************************************************)
(* extract_color (scrape_colors.py:16-30)                                  *)
(***************************************************************************)
ColorBands == {"green", "amber", "red", "none"}

\* A class attribute is a list of class names (the html parser's multi-valued
\* attribute) or one string; an absent attribute is the empty list.
ListAttr(l) == [isStr |-> FALSE, str |-> "", list |-> l]
StrAttr(s) == [isStr |-> TRUE, str |-> s, list |-> <<>>]

\* lines 18-20
ClassList(attr) == IF attr.isStr THEN Split(attr.str) ELSE attr.list

\* The mutation of ClassColor that matches case-sensitively.
ClassColorCaseSensitive(cls) ==
    IF Contains(cls, "green") THEN "green"
    ELSE IF Contains(cls, "red") THEN "red"
    ELSE IF Contains(cls, "orange") \/ Contains(cls, "amber") \/ Contains(cls, "yellow")
         THEN "amber"
    ELSE "none"

\* lines 23-28: the colour one class name selects, "none" when the loop goes on
ClassColor(cls) ==
    IF Contains(Lower(cls), "green") THEN "green"
    ELSE IF Contains(Lower(cls), "red") THEN "red"
    ELSE IF Contains(Lower(cls), "orange") \/ Contains(Lower(cls), "amber")
            \/ Contains(Lower(cls), "yellow")
         THEN "amber"
    ELSE "none"

RECURSIVE FirstClassColor(_, _)
\* lines 22-30: the for loop from position k, returning at the first class that matches
FirstClassColor(classes, k) ==
    IF k > Len(classes) THEN "none"
    ELSE IF ClassColor(classes[k]) # "none" THEN ClassColor(classes[k])
    ELSE FirstClassColor(classes, k + 1)

extract_color(attr) == FirstClassColor(ClassList(attr), 1)

(***************************************************************************)
(* Table cells.  A cell is [text, colspan, class, width]: text is the raw  *)
(* text of the cell, colspan is <<>> (no attribute) or <<n>>, class is the *)
(* class attribute, width is the width attribute ("" when absent).         *)
(***************************************************************************)
\* cell.get_text(strip=True)
Text(cell) == Strip(cell.text)

\* int(cell.get('colspan', 1))
Colspan(cell) == IF cell.colspan = <<>> THEN 1 ELSE cell.colspan[1]

\* if i < len(cells) and cells[i].get_text(strip=True) == '': i += 1
\* (scrape_hse_data.py:99-100, 107-108; scrape_colors.py:194-195); i counts from 0
SkipEmpty(cells, i) ==
    IF i < Len(cells) /\ Text(cells[i + 1]) = "" THEN i + 1 ELSE i

\* value if value else None
OrNone(value) == IF value # "" THEN Some(value) ELSE Null

(***************************************************************************)
(* scrape_hse_trolleygar (scrape_hse_data.py:15-155)                       *)
(***************************************************************************)
\* line 65: the cells of a row with colspan >= 8
hospital_count(cells) == Cardinality({k \in 1..Len(cells) : Colspan(cells[k]) >= 8})

RECURSIVE FirstMasterRow(_, _)
\* lines 63-69: the for loop from rows[k] on, rows counted from 1; Null when the
\* loop ends without a break
FirstMasterRow(rows, k) ==
    IF k > Len(rows) THEN Null
    ELSE IF hospital_count(rows[k]) >= 50 THEN Some(k)
    ELSE FirstMasterRow(rows, k + 1)

\* The mutation of MasterRowIndex that skips one header row too many.
MasterRowIndexSkipThree(rows) == FirstMasterRow(rows, 4)

\* lines 62-69: data_row, the first row of rows[2:] with 50 or more such cells
MasterRowIndex(rows) == FirstMasterRow(rows, 3)

\* lines 89-93
MasterIsRegionalHeader(hospital_name) ==
    /\ StartsWith(hospital_name, "HSE ")
    /\ ~EndsWith(hospital_name, "Total")
    /\ ~EndsWith(hospital_name, "Hospital")

\* lines 112-119: up to 11 cell texts from cursor i
MasterStats(cells, i) ==
    [k \in 1..Min2(11, Len(cells) - i) |-> OrNone(Text(cells[i + k]))]

\* the mutation of MasterRecord that takes the seven statistics from the first
\* seven cells of the block
MasterRecordContiguous(hospital_name, stats) ==
    [Hospital |-> hospital_name,
     ED_Trolleys |-> stats[1],
     Ward_Trolleys |-> stats[2],
     Total_Trolleys |-> stats[3],
     Surge_Capacity_in_Use |-> stats[4],
     Delayed_Transfers_of_Care |-> stats[5],
     Total_Waiting_gt_24hrs |-> stats[6],
     Age_75plus_Waiting_gt_24hrs |-> stats[7]]

\* lines 123-132 (stats[n] is stats[n + 1] here)
MasterRecord(hospital_name, stats) ==
    [Hospital |-> hospital_name,
     ED_Trolleys |-> stats[1],
     Ward_Trolleys |-> stats[2],
     Total_Trolleys |-> stats[3],
     Surge_Capacity_in_Use |-> stats[5],
     Delayed_Transfers_of_Care |-> stats[7],
     Total_Waiting_gt_24hrs |-> stats[9],
     Age_75plus_Waiting_gt_24hrs |-> stats[11]]

\* lines 104-132: the cursor and the data after a name cell that is no regional
\* header, stats being the cells read from cursor j
MasterEntity(st, hospital_name, j, stats) ==
    [i |-> j + Len(stats),
     data |-> IF hospital_name # "" /\ Len(stats) >= 11
              THEN Append(st.data, MasterRecord(hospital_name, stats))
              ELSE st.data]

\* lines 84-132: the cursor and the data after a cell of colspan >= 8
MasterWide(cells, st, hospital_name, j) ==
    IF MasterIsRegionalHeader(hospital_name)
    THEN [i |-> j, data |-> st.data]
    ELSE MasterEntity(st, hospital_name, j, MasterStats(cells, j))

\* lines 80-135: one iteration of the while loop, st = [i, data]
MasterStep(cells, st) ==
    IF Colspan(cells[st.i + 1]) >= 8
    THEN MasterWide(cells, st, Text(cells[st.i + 1]), SkipEmpty(cells, st.i + 1))
    ELSE [i |-> st.i + 1, data |-> st.data]

RECURSIVE MasterSteps(_, _, _)
\* lines 79-135: up to n iterations of the while loop from st, stopping when the
\* loop condition i < len(cells) fails (n iterations are run as two halves)
MasterSteps(cells, st, n) ==
    IF n = 0 \/ st.i >= Len(cells) THEN st
    ELSE IF n = 1 THEN MasterStep(cells, st)
    ELSE MasterSteps(cells, MasterSteps(cells, st, n \div 2), n - (n \div 2))

\* lines 78-135: the while loop; every iteration moves i forward by one or more,
\* so the loop ends within len(cells) iterations
MasterScan(cells, st) == MasterSteps(cells, st, Len(cells)).data

(***************************************************************************)
(* scrape_with_colors_v2 (scrape_colors.py:144-235)                        *)
(***************************************************************************)
RECURSIVE Flatten(_)
\* line 169: table.find_all(['td', 'th']), the cells of all rows in document order
Flatten(rows) == IF Len(rows) = 0 THEN <<>> ELSE Head(rows) \o Flatten(Tail(rows))

\* lines 180-184
V2IsRegionalHeader(text) ==
    /\ StartsWith(text, "HSE ")
    /\ ~Contains(text, "Total")
    /\ ~EndsWith(text, "Hospital")

\* lines 199-206: up to 12 cells from cursor i, each with its text and colour
V2Stats(cells, i) ==
    [k \in 1..Min2(12, Len(cells) - i) |->
        [value |-> Text(cells[i + k]), color |-> extract_color(cells[i + k].class)]]

\* lines 212-224 (stats[n] is stats[n + 1] here)
V2Record(date_str, hospital_name, stats) ==
    [date |-> date_str,
     hospital |-> hospital_name,
     ed_trolleys |-> OrNone(stats[1].value),
     ward_trolleys |-> OrNone(stats[2].value),
     total_trolleys |-> OrNone(stats[3].value),
     total_color |-> stats[3].color,
     surge |-> OrNone(stats[5].value),
     delayed |-> OrNone(stats[7].value),
     delayed_color |-> stats[7].color,
     gt_24hrs |-> OrNone(stats[9].value),
     gt_75_24hrs |-> OrNone(stats[11].value)]

\* lines 190-225: the cursor and the data after a name cell that is no regional
\* header, stats being the cells read from cursor j
V2Entity(date_str, st, hospital_name, j, stats) ==
    [i |-> j + Len(stats),
     data |-> IF Len(stats) >= 11
              THEN Append(st.data, V2Record(date_str, hospital_name, stats))
              ELSE st.data]

\* lines 178-225: the cursor and the data after a cell of colspan >= 8 with text
V2Wide(date_str, cells, st, text, j) ==
    IF V2IsRegionalHeader(text)
    THEN [i |-> st.i + 1, data |-> st.data]
    ELSE V2Entity(date_str, st, text, j, V2Stats(cells, j))

\* lines 173-227: one iteration of the while loop, st = [i, data]
V2Step(date_str, cells, st) ==
    IF Colspan(cells[st.i + 1]) >= 8 /\ Text(cells[st.i + 1]) # ""
    THEN V2Wide(date_str, cells, st, Text(cells[st.i + 1]), SkipEmpty(cells, st.i + 1))
    ELSE [i |-> st.i + 1, data |-> st.data]

RECURSIVE V2Steps(_, _, _, _)
\* lines 172-227: up to n iterations of the while loop from st, stopping when the
\* loop condition i < len(all_cells) fails (n iterations are run as two halves)
V2Steps(date_str, cells, st, n) ==
    IF n = 0 \/ st.i >= Len(cells) THEN st
    ELSE IF n = 1 THEN V2Step(date_str, cells, st)
    ELSE V2Steps(date_str, cells, V2Steps(date_str, cells, st, n \div 2), n - (n \div 2))

\* lines 171-227: the while loop; every iteration moves i forward by one or more,
\* so the loop ends within len(all_cells) iterations
V2Scan(date_str, cells, st) == V2Steps(date_str, cells, st, Len(cells)).data

(***************************************************************************)
(* scrape_with_colors (scrape_colors.py:33-141)                            *)
(***************************************************************************)
\* lines 91-103: the cells after the first with colspan 1 and width 10, 50 or 30
DataCells(cells) ==
    LET Keep(cell) == Colspan(cell) = 1 /\ cell.width \in {"10", "50", "30"}
        kept == SelectSeq(Tail(cells), Keep)
    IN  [k \in 1..Len(kept) |->
            [value |-> Text(kept[k]), color |-> extract_color(kept[k].class),
             width |-> kept[k].width]]

\* lines 110-131: a key the record lacks is Null
ColorsRecord(date_str, hospital_name, values) ==
    [date |-> date_str,
     hospital |-> hospital_name,
     ed_trolleys |-> Some(values[1].value),
     ward_trolleys |-> Some(values[2].value),
     total_trolleys |-> Some(values[3].value),
     total_color |-> values[3].color,
     surge |-> IF Len(values) > 3 THEN Some(values[4].value) ELSE Null,
     surge_color |-> IF Len(values) > 3 THEN Some(values[4].color) ELSE Null,
     delayed |-> IF Len(values) > 4 THEN Some(values[5].value) ELSE Null,
     delayed_color |-> IF Len(values) > 4 THEN Some(values[5].color) ELSE Null]

\* lines 66-133: the records one row adds to data
RowRecords(date_str, cells) ==
    LET hospital_name == Text(cells[1])
        data_cells == DataCells(cells)
        HasValue(c) == c.value # ""
        values == SelectSeq(data_cells, HasValue)
    IN  IF Len(cells) < 5 THEN <<>>
        ELSE IF Colspan(cells[1]) < 8 THEN <<>>
        ELSE IF StartsWith(hospital_name, "HSE ") /\ ~Contains(hospital_name, "Total") THEN <<>>
        ELSE IF hospital_name = "" THEN <<>>
        ELSE IF Len(data_cells) >= 3 /\ Len(values) >= 3
             THEN <<ColorsRecord(date_str, hospital_name, values)>>
        ELSE <<>>

RECURSIVE RowsScan(_, _)
\* lines 65-133: the for loop over the rows
RowsScan(date_str, rows) ==
    IF Len(rows) = 0 THEN <<>>
    ELSE RowRecords(date_str, Head(rows)) \o RowsScan(date_str, Tail(rows))

(***************************************************************************)
(* The classifier on its own: a cell arrives, extract_color is called.     *)
(***************************************************************************)
MaxClasses == 2

ClassNames == {"text-green", "bold", "amber-cell", "foo", "red-x", "green-y",
               "GREEN", "bg-Yellow", "orange", "hundred"}

ClassAttrs ==
    {ListAttr(l) : l \in SeqsUpTo(ClassNames, MaxClasses)}
    \cup {StrAttr(s) : s \in {"", "text-green bold", " red-x  green-y ", "foo"}}

IdleClassifier == classAttr = ListAttr(<<>>) /\ color = Pending
IdleAnalysis == df = <<>> /\ apc = "idle" /\ est = <<>> /\ exact = <<>>
IdleScraper ==
    /\ mode = "idle" /\ reportDate = ""
    /\ layout = [table |-> FALSE, rows |-> <<>>, segs |-> <<>>]
    /\ data_row = Null /\ returned = [kind |-> "pending", rows |-> <<>>] /\ phase = "idle"
IdleStore == csv_file = Null /\ db_table = Null /\ hist = <<>>
IdleCli ==
    /\ args = [mode |-> "idle"] /\ cdf = [kind |-> "unset", rows |-> <<>>]
    /\ exit_status = Null /\ cpc = "idle"
IdleRange ==
    /\ runner = "idle" /\ start_date = "" /\ end_date = ""
    /\ current = [day |-> 0, month |-> 0, year |-> 0]
    /\ all_data = <<>> /\ calls = <<>>
    /\ combined = [kind |-> "pending", rows |-> <<>>] /\ rpc = "idle"

InitClassify ==
    /\ classAttr \in ClassAttrs
    /\ color = Pending
    /\ IdleAnalysis
    /\ IdleScraper
    /\ IdleRange
    /\ IdleStore
    /\ IdleCli

Classify ==
    /\ color = Pending
    /\ color' = extract_color(classAttr)
    /\ UNCHANGED <<classAttr, analysisVars, scraperVars, rangeVars, storeVars, cliVars>>

NextClassify == Classify

SpecClassify == InitClassify /\ [][NextClassify]_vars

\* The claims' reading of "a class contains a keyword": case-insensitive substring.
Mentions(cls, word) ==
    \E k \in 1..(Len(cls) - Len(word) + 1) : Lower(SubSeq(cls, k, k + Len(word) - 1)) = word
AnyMentions(classes, words) == \E cls \in classes : \E w \in words : Mentions(cls, w)

\* Category precedence over the whole set of classes: green, red, amber, none.
PrecedenceColor(classes) ==
    IF AnyMentions(classes, {"green"}) THEN "green"
    ELSE IF AnyMentions(classes, {"red"}) THEN "red"
    ELSE IF AnyMentions(classes, {"orange", "amber", "yellow"}) THEN "amber"
    ELSE "none"

\* C5: the returned colour is the colour of the fixed category precedence
\* (green, then red, then amber, then none) over the set of classes,
\* whatever the order in which the classes are listed.
C5_CategoryPrecedence ==
    color # Pending => color = PrecedenceColor(Range(ClassList(classAttr)))

\* C6: extract_color is total: it returns one of green, amber, red, none for
\* every class attribute; it returns none exactly when no class contains, in any
\* letter case, one of green, red, orange, amber, yellow; and
\* {text-green, bold} is green, {amber-cell} is amber, {foo} is none.
C6_ClassifierTotal ==
    color # Pending =>
        /\ color \in ColorBands
        /\ color = "none" <=>
             ~AnyMentions(Range(ClassList(classAttr)),
                          {"green", "red", "orange", "amber", "yellow"})
        /\ Range(ClassList(classAttr)) = {"text-green", "bold"} => color = "green"
        /\ Range(ClassList(classAttr)) = {"amber-cell"} => color = "amber"
        /\ Range(ClassList(classAttr)) = {"foo"} => color = "none"

\* An upper-case class name was classified by its keyword.
C6_Witness ==
    /\ classAttr = ListAttr(<<"bold", "GREEN">>)
    /\ color = "green"

(***************************************************************************)
(* analyze_hospital_thresholds (analyze_boundaries.py:10-73)               *)
(*                                                                         *)
(* A row of the CSV file is [hospital, total_trolleys, total_color], with  *)
(* total_trolleys the text of the CSV field.                               *)
(***************************************************************************)
Digits == "0123456789"
IsDigit(c) == \E k \in 1..Len(Digits) : SubSeq(Digits, k, k) = c
DigitVal(c) == (CHOOSE k \in 1..Len(Digits) : SubSeq(Digits, k, k) = c) - 1

RECURSIVE DecimalValue(_, _)
\* the value of the digit string s read after the prefix of value acc
DecimalValue(s, acc) ==
    IF Len(s) = 0 THEN acc
    ELSE DecimalValue(SubSeq(s, 2, Len(s)), 10 * acc + DigitVal(SubSeq(s, 1, 1)))

\* pd.to_numeric(..., errors='coerce') of one field: NaN for text that is no number
ToNumeric(s) ==
    IF Len(s) > 0 /\ \A k \in 1..Len(s) : IsDigit(SubSeq(s, k, k))
    THEN Some(DecimalValue(s, 0))
    ELSE Null

\* line 19: df['total_num']
WithTotalNum(frame) ==
    [k \in 1..Len(frame) |->
        [hospital |-> frame[k].hospital,
         total_color |-> frame[k].total_color,
         total_num |-> ToNumeric(frame[k].total_trolleys)]]

\* Python's order of the hospital names the model uses
HospitalOrder == <<"National Total", "X", "Y">>

\* line 23: sorted(df['hospital'].unique())
SortedHospitals(frame) ==
    LET Present(h) == \E k \in 1..Len(frame) : frame[k].hospital = h
    IN  SelectSeq(HospitalOrder, Present)

\* lines 27-28: the hospital's rows with a numeric total
HospData(frame, hospital) ==
    LET Keep(r) == r.hospital = hospital /\ ~IsNull(r.total_num)
    IN  SelectSeq(WithTotalNum(frame), Keep)

\* lines 34-36: the totals of the rows of one colour
ColorVals(hosp_data, c) ==
    LET Keep(r) == r.total_color = c
        rows == SelectSeq(hosp_data, Keep)
    IN  [k \in 1..Len(rows) |-> Val(rows[k].total_num)]

SeriesMax(vals) == IF Len(vals) > 0 THEN Some(SetMax(Range(vals))) ELSE Null
SeriesMin(vals) == IF Len(vals) > 0 THEN Some(SetMin(Range(vals))) ELSE Null

\* lines 38-49
BandStats(hospital, hosp_data) ==
    LET green_vals == ColorVals(hosp_data, "green")
        amber_vals == ColorVals(hosp_data, "amber")
        red_vals == ColorVals(hosp_data, "red")
    IN  [hospital |-> hospital,
         green_max |-> SeriesMax(green_vals), green_min |-> SeriesMin(green_vals),
         green_count |-> Len(green_vals),
         amber_max |-> SeriesMax(amber_vals), amber_min |-> SeriesMin(amber_vals),
         amber_count |-> Len(amber_vals),
         red_min |-> SeriesMin(red_vals), red_max |-> SeriesMax(red_vals),
         red_count |-> Len(red_vals)]

\* The mutation of AmberThreshold that takes the larger of the two bounds.
AmberThresholdMax(result) ==
    IF ~IsNull(result.green_max) /\ ~IsNull(result.amber_min)
    THEN Some(IF Val(result.green_max) + 1 >= Val(result.amber_min)
              THEN Val(result.green_max) + 1 ELSE Val(result.amber_min))
    ELSE IF ~IsNull(result.amber_min) THEN result.amber_min
    ELSE Null

\* The mutation of AmberThreshold that puts the threshold right after the highest
\* green count, whatever the lowest amber count.
AmberThresholdAfterGreen(result) ==
    IF ~IsNull(result.green_max) /\ ~IsNull(result.amber_min)
    THEN Some(Val(result.green_max) + 1)
    ELSE IF ~IsNull(result.amber_min) THEN result.amber_min
    ELSE Null

\* The mutation of AmberThreshold that gives no threshold unless green was observed.
AmberThresholdNeedsGreen(result) ==
    IF ~IsNull(result.green_max) /\ ~IsNull(result.amber_min)
    THEN Some(Min2(Val(result.green_max) + 1, Val(result.amber_min)))
    ELSE Null

\* lines 53-58
AmberThreshold(result) ==
    IF ~IsNull(result.green_max) /\ ~IsNull(result.amber_min)
    THEN Some(Min2(Val(result.green_max) + 1, Val(result.amber_min)))
    ELSE IF ~IsNull(result.amber_min) THEN result.amber_min
    ELSE Null

\* The mutation of RedThreshold that forgets the + 1 after the highest amber.
RedThresholdNoStep(result) ==
    IF ~IsNull(result.amber_max) /\ ~IsNull(result.red_min)
    THEN Some(Min2(Val(result.amber_max), Val(result.red_min)))
    ELSE IF ~IsNull(result.green_max) /\ ~IsNull(result.red_min) THEN result.red_min
    ELSE IF ~IsNull(result.red_min) THEN result.red_min
    ELSE Null

\* lines 61-69
RedThreshold(result) ==
    IF ~IsNull(result.amber_max) /\ ~IsNull(result.red_min)
    THEN Some(Min2(Val(result.amber_max) + 1, Val(result.red_min)))
    ELSE IF ~IsNull(result.green_max) /\ ~IsNull(result.red_min) THEN result.red_min
    ELSE IF ~IsNull(result.red_min) THEN result.red_min
    ELSE Null

\* lines 38-71: the row appended for one hospital
HospitalResult(hospital, hosp_data) ==
    LET result == BandStats(hospital, hosp_data)
    IN  [hospital |-> result.hospital,
         green_max |-> result.green_max, green_min |-> result.green_min,
         green_count |-> result.green_count,
         amber_max |-> result.amber_max, amber_min |-> result.amber_min,
         amber_count |-> result.amber_count,
         red_min |-> result.red_min, red_max |-> result.red_max,
         red_count |-> result.red_count,
         amber_threshold |-> AmberThreshold(result),
         red_threshold |-> RedThreshold(result)]

RECURSIVE ThresholdRowsAll(_, _, _)
\* The mutation of ThresholdRows that does not skip the national aggregate.
ThresholdRowsAll(frame, hospitals, k) ==
    IF k > Len(hospitals) THEN <<>>
    ELSE IF Len(HospData(frame, hospitals[k])) = 0 THEN ThresholdRowsAll(frame, hospitals, k + 1)
    ELSE <<HospitalResult(hospitals[k], HospData(frame, hospitals[k]))>>
         \o ThresholdRowsAll(frame, hospitals, k + 1)

RECURSIVE ThresholdRows(_, _, _)
\* lines 23-71: the for loop over the sorted hospitals, from position k
ThresholdRows(frame, hospitals, k) ==
    IF k > Len(hospitals) THEN <<>>
    ELSE IF hospitals[k] = "National Total" THEN ThresholdRows(frame, hospitals, k + 1)
    ELSE IF Len(HospData(frame, hospitals[k])) = 0 THEN ThresholdRows(frame, hospitals, k + 1)
    ELSE <<HospitalResult(hospitals[k], HospData(frame, hospitals[k]))>>
         \o ThresholdRows(frame, hospitals, k + 1)

analyze_hospital_thresholds(frame) == ThresholdRows(frame, SortedHospitals(frame), 1)

(***************************************************************************)
(* find_exact_boundaries (analyze_boundaries.py:76-109)                    *)
(***************************************************************************)
\* line 86: df['hospital'].unique(), the names in the order of their first rows
UniqueHospitals(frame) ==
    LET First(k) == \A j \in 1..(k - 1) : frame[j].hospital # frame[k].hospital
        firsts == SelectSeq([k \in 1..Len(frame) |-> k], First)
    IN  [k \in 1..Len(firsts) |-> frame[firsts[k]].hospital]

RECURSIVE SortOrders(_)
\* line 92: hosp_data.sort_values('total_num').  The default sort is not stable,
\* so rows of equal total_num come out in any order: the set of the frames
\* the call can return.
SortOrders(rows) ==
    IF Len(rows) = 0 THEN {<<>>}
    ELSE LET least == SetMin({Val(rows[k].total_num) : k \in 1..Len(rows)})
             firsts == {k \in 1..Len(rows) : Val(rows[k].total_num) = least}
             Without(k) == SubSeq(rows, 1, k - 1) \o SubSeq(rows, k + 1, Len(rows))
         IN  UNION {{<<rows[k]>> \o rest : rest \in SortOrders(Without(k))} : k \in firsts}

\* The mutation of IsExactBoundary that does not compare the colours.
IsExactBoundaryAnyColor(prev, row) == Val(row.total_num) - Val(prev.total_num) = 1

\* lines 97-98
IsExactBoundary(prev, row) ==
    /\ Val(row.total_num) - Val(prev.total_num) = 1
    /\ row.total_color # prev.total_color

\* lines 100-106; the arrow of boundary_type is written "->"
ExactBoundary(hospital, prev, row) ==
    [hospital |-> hospital,
     boundary_type |-> prev.total_color \o "->" \o row.total_color,
     below_threshold |-> Val(prev.total_num),
     at_threshold |-> Val(row.total_num),
     proven |-> TRUE]

RECURSIVE PairBoundaries(_, _, _)
\* lines 94-107: the loop over the sorted rows from row k on, prev being row k - 1
PairBoundaries(hospital, sorted, k) ==
    IF k > Len(sorted) THEN <<>>
    ELSE (IF IsExactBoundary(sorted[k - 1], sorted[k])
          THEN <<ExactBoundary(hospital, sorted[k - 1], sorted[k])>> ELSE <<>>)
         \o PairBoundaries(hospital, sorted, k + 1)

RECURSIVE ExactRows(_, _, _)
\* lines 86-107: the for loop over the hospitals, from position k; the set of the
\* lists exact_boundaries can end as, one for each way the sorts can come out
ExactRows(frame, hospitals, k) ==
    IF k > Len(hospitals) THEN {<<>>}
    ELSE IF hospitals[k] = "National Total" THEN ExactRows(frame, hospitals, k + 1)
    ELSE {PairBoundaries(hospitals[k], sorted, 2) \o rest :
            sorted \in SortOrders(HospData(frame, hospitals[k])),
            rest \in ExactRows(frame, hospitals, k + 1)}

find_exact_boundaries(frame) == ExactRows(frame, UniqueHospitals(frame), 1)

(***************************************************************************)
(* The analysis of a CSV file that scrapes have filled row by row.         *)
(***************************************************************************)
MaxObs == 3

Obs(h, t, c) == [hospital |-> h, total_trolleys |-> t, total_color |-> c]

ObsDomain ==
    {Obs("X", t, c) : t \in {"1", "2", "3"}, c \in {"green", "amber", "red"}}
    \cup {Obs("X", "", "green"), Obs("X", "2", "none")}
    \cup {Obs("X", "10", "green"), Obs("X", "11", "amber")}
    \cup {Obs("Y", "1", "green"), Obs("Y", "2", "none"), Obs("Y", "", "red")}
    \cup {Obs("National Total", "1", "green"), Obs("National Total", "2", "amber")}

InitAnalyze ==
    /\ df = <<>>
    /\ apc = "load"
    /\ est = <<>>
    /\ exact = <<>>
    /\ IdleClassifier
    /\ IdleScraper
    /\ IdleRange
    /\ IdleStore
    /\ IdleCli

\* one more row is saved to the CSV file (scrape_colors.py:330, 336)
AppendRow ==
    /\ apc = "load"
    /\ Len(df) < MaxObs
    /\ \E o \in ObsDomain : df' = Append(df, o)
    /\ UNCHANGED <<apc, est, exact, classifierVars, scraperVars, rangeVars, storeVars, cliVars>>

\* print_summary (analyze_boundaries.py:119-120): both analyses of the file
Analyze ==
    /\ apc = "load"
    /\ est' = analyze_hospital_thresholds(df)
    /\ exact' \in find_exact_boundaries(df)
    /\ apc' = "analyzed"
    /\ UNCHANGED <<df, classifierVars, scraperVars, rangeVars, storeVars, cliVars>>

NextAnalyze == AppendRow \/ Analyze

SpecAnalyze == InitAnalyze /\ [][NextAnalyze]_vars

\* The counts observed for a hospital with a colour: the numeric totals of its rows.
Counts(h, c) ==
    {Val(ToNumeric(df[k].total_trolleys)) :
        k \in {j \in 1..Len(df) : /\ df[j].hospital = h
                                  /\ df[j].total_color = c
                                  /\ ~IsNull(ToNumeric(df[j].total_trolleys))}}

\* C7: amber_threshold is min(max green + 1, min amber) when green and amber were
\* both observed, min amber when only amber was, max green + 1 when only green
\* was, and null when neither was.
C7_AmberThresholdRule ==
    apc = "analyzed" =>
        \A k \in 1..Len(est) :
            LET G == Counts(est[k].hospital, "green")
                A == Counts(est[k].hospital, "amber")
            IN  est[k].amber_threshold =
                    IF G # {} /\ A # {} THEN Some(Min2(SetMax(G) + 1, SetMin(A)))
                    ELSE IF A # {} THEN Some(SetMin(A))
                    ELSE IF G # {} THEN Some(SetMax(G) + 1)
                    ELSE Null

\* C8: red_threshold is min(max amber + 1, min red) when amber and red were both
\* observed, min red when red was observed and amber was not, and null when no
\* red was observed.
C8_RedThresholdRule ==
    apc = "analyzed" =>
        \A k \in 1..Len(est) :
            LET A == Counts(est[k].hospital, "amber")
                R == Counts(est[k].hospital, "red")
            IN  est[k].red_threshold =
                    IF A # {} /\ R # {} THEN Some(Min2(SetMax(A) + 1, SetMin(R)))
                    ELSE IF R # {} THEN Some(SetMin(R))
                    ELSE Null

\* A hospital whose highest amber count + 1 is below its lowest red count.
C8_Witness ==
    /\ apc = "analyzed"
    /\ \E k \in 1..Len(est) :
        LET A == Counts(est[k].hospital, "amber")
            R == Counts(est[k].hospital, "red")
        IN  /\ A # {} /\ R # {}
            /\ SetMax(A) + 1 < SetMin(R)
            /\ est[k].red_threshold = Some(SetMax(A) + 1)

\* C9: whenever both thresholds of a hospital are non-null,
\* amber_threshold <= red_threshold.
C9_ThresholdsOrdered ==
    apc = "analyzed" =>
        \A k \in 1..Len(est) :
            (~IsNull(est[k].amber_threshold) /\ ~IsNull(est[k].red_threshold))
                => Val(est[k].amber_threshold) <= Val(est[k].red_threshold)

\* C10 as stated: a non-null amber_threshold is never below the lowest amber
\* count and never above the highest green count + 1; a non-null red_threshold is
\* never below the lowest red count and never above the highest amber count + 1.
C10_BetweenBandBounds ==
    apc = "analyzed" =>
        \A k \in 1..Len(est) :
            LET G == Counts(est[k].hospital, "green")
                A == Counts(est[k].hospital, "amber")
                R == Counts(est[k].hospital, "red")
                at == est[k].amber_threshold
                rt == est[k].red_threshold
            IN  /\ (~IsNull(at) /\ A # {}) => Val(at) >= SetMin(A)
                /\ (~IsNull(at) /\ G # {}) => Val(at) <= SetMax(G) + 1
                /\ (~IsNull(rt) /\ R # {}) => Val(rt) >= SetMin(R)
                /\ (~IsNull(rt) /\ A # {}) => Val(rt) <= SetMax(A) + 1

\* C10 amended: a non-null amber_threshold is never above the lowest amber count
\* and never above the highest green count + 1; a non-null red_threshold is never
\* above the lowest red count and never above the highest amber count + 1.
C10_AtMostBandBounds ==
    apc = "analyzed" =>
        \A k \in 1..Len(est) :
            LET G == Counts(est[k].hospital, "green")
                A == Counts(est[k].hospital, "amber")
                R == Counts(est[k].hospital, "red")
                at == est[k].amber_threshold
                rt == est[k].red_threshold
            IN  /\ ~IsNull(at) => (A # {} /\ Val(at) <= SetMin(A))
                /\ (~IsNull(at) /\ G # {}) => Val(at) <= SetMax(G) + 1
                /\ ~IsNull(rt) => (R # {} /\ Val(rt) <= SetMin(R))
                /\ (~IsNull(rt) /\ A # {}) => Val(rt) <= SetMax(A) + 1

\* A hospital with a gap between its highest green and its lowest amber count.
C10_Witness ==
    /\ apc = "analyzed"
    /\ \E k \in 1..Len(est) :
        LET G == Counts(est[k].hospital, "green")
            A == Counts(est[k].hospital, "amber")
        IN  /\ G # {} /\ A # {}
            /\ SetMax(G) + 1 < SetMin(A)
            /\ est[k].amber_threshold = Some(SetMax(G) + 1)

\* the numeric rows of the file for a hospital, as [count, color]
Observations(h) ==
    {[count |-> Val(ToNumeric(df[k].total_trolleys)), color |-> df[k].total_color] :
        k \in {j \in 1..Len(df) : /\ df[j].hospital = h
                                  /\ ~IsNull(ToNumeric(df[j].total_trolleys))}}

\* C11 as stated: for a hospital with no green observation but with amber and red
\* observations, amber_threshold is null and red_threshold is the lowest count
\* observed with red.
C11_NoGreenNullAmber ==
    apc = "analyzed" =>
        \A k \in 1..Len(est) :
            LET G == Counts(est[k].hospital, "green")
                A == Counts(est[k].hospital, "amber")
                R == Counts(est[k].hospital, "red")
            IN  (G = {} /\ A # {} /\ R # {}) =>
                    /\ est[k].amber_threshold = Null
                    /\ est[k].red_threshold = Some(SetMin(R))

\* C11 amended: for a hospital with no green observation but with amber and red
\* observations, amber_threshold is the lowest count observed with amber and
\* red_threshold is min(highest amber count + 1, lowest red count).
C11_NoGreenLowestAmber ==
    apc = "analyzed" =>
        \A k \in 1..Len(est) :
            LET G == Counts(est[k].hospital, "green")
                A == Counts(est[k].hospital, "amber")
                R == Counts(est[k].hospital, "red")
            IN  (G = {} /\ A # {} /\ R # {}) =>
                    /\ est[k].amber_threshold = Some(SetMin(A))
                    /\ est[k].red_threshold = Some(Min2(SetMax(A) + 1, SetMin(R)))

\* A hospital seen amber at 1 and red at 3, never green, was analyzed.
C11_Witness ==
    /\ apc = "analyzed"
    /\ \E k \in 1..Len(est) :
        /\ Counts(est[k].hospital, "green") = {}
        /\ Counts(est[k].hospital, "amber") = {1}
        /\ Counts(est[k].hospital, "red") = {3}
        /\ est[k].amber_threshold = Some(1)
        /\ est[k].red_threshold = Some(2)

\* C12: every boundary find_exact_boundaries reports comes from two observations
\* of its hospital whose counts differ by exactly 1 and whose colours differ, is
\* marked proven, and has boundary_type lower colour -> higher colour,
\* below_threshold the lower count and at_threshold the lower count + 1; and the
\* file [(X, 10, green), (X, 11, amber)] gives the one boundary
\* (X, green->amber, 10, 11, proven) and amber_threshold 11 for X.
C12_ExactBoundarySound ==
    apc = "analyzed" =>
        /\ \A k \in 1..Len(exact) :
              \E lo \in Observations(exact[k].hospital) :
              \E hi \in Observations(exact[k].hospital) :
                /\ hi.count = lo.count + 1
                /\ hi.color # lo.color
                /\ exact[k].proven = TRUE
                /\ exact[k].boundary_type = lo.color \o "->" \o hi.color
                /\ exact[k].below_threshold = lo.count
                /\ exact[k].at_threshold = lo.count + 1
        /\ df = <<Obs("X", "10", "green"), Obs("X", "11", "amber")>> =>
              /\ exact = <<[hospital |-> "X", boundary_type |-> "green->amber",
                            below_threshold |-> 10, at_threshold |-> 11, proven |-> TRUE]>>
              /\ Len(est) = 1 /\ est[1].hospital = "X"
              /\ est[1].amber_threshold = Some(11)

\* The file [(X, 10, green), (X, 11, amber)] was analyzed and gave one boundary.
C12_Witness ==
    /\ apc = "analyzed"
    /\ df = <<Obs("X", "10", "green"), Obs("X", "11", "amber")>>
    /\ Len(exact) = 1
    /\ exact[1].at_threshold = 11

\* C13: for every hospital other than the national aggregate, whenever the file
\* holds two observations of it whose counts differ by exactly 1 and whose
\* colours differ, find_exact_boundaries reports a boundary for that lower
\* count, lower colour, higher count and higher colour, however many
\* observations share a count and whatever the order of tied observations.
C13_ExactBoundaryComplete ==
    apc = "analyzed" =>
        \A h \in Range(UniqueHospitals(df)) \ {"National Total"} :
            \A lo \in Observations(h) : \A hi \in Observations(h) :
                (hi.count = lo.count + 1 /\ hi.color # lo.color) =>
                    \E k \in 1..Len(exact) :
                        /\ exact[k].hospital = h
                        /\ exact[k].boundary_type = lo.color \o "->" \o hi.color
                        /\ exact[k].below_threshold = lo.count
                        /\ exact[k].at_threshold = hi.count

\* C14: no estimate row is emitted for a hospital for which no green, amber or
\* red count was observed (every observation of it has a null or non-numeric
\* count, or the colour none).
C14_NoRowWithoutBandCount ==
    apc = "analyzed" =>
        \A k \in 1..Len(est) :
            \E c \in {"green", "amber", "red"} : Counts(est[k].hospital, c) # {}

\* C15: the national aggregate is the hospital of no row of the threshold
\* estimates and of no reported exact boundary, whatever observations it has.
C15_NoNationalTotal ==
    apc = "analyzed" =>
        /\ \A k \in 1..Len(est) : est[k].hospital # "National Total"
        /\ \A k \in 1..Len(exact) : exact[k].hospital # "National Total"

\* A file that holds the national aggregate green at 1 and amber at 2, and
\* another hospital, was analyzed.
C15_Witness ==
    /\ apc = "analyzed"
    /\ Observations("National Total") =
            {[count |-> 1, color |-> "green"], [count |-> 2, color |-> "amber"]}
    /\ Len(est) = 1
    /\ est[1].hospital = "X"

\* the row of the threshold estimates for a hospital, as a set (empty or one row)
EstimateOf(h) == {est[k] : k \in {j \in 1..Len(est) : est[j].hospital = h}}

\* C26: for every reported exact boundary of type green->amber with at_threshold
\* t, amber_threshold of its hospital is non-null and <= t; for every reported
\* exact boundary of type amber->red with at_threshold t, red_threshold of its
\* hospital is non-null and <= t.
C26_ThresholdsWithinProven ==
    apc = "analyzed" =>
        \A k \in 1..Len(exact) :
            /\ exact[k].boundary_type = "green->amber" =>
                    /\ EstimateOf(exact[k].hospital) # {}
                    /\ \A e \in EstimateOf(exact[k].hospital) :
                            /\ ~IsNull(e.amber_threshold)
                            /\ Val(e.amber_threshold) <= exact[k].at_threshold
            /\ exact[k].boundary_type = "amber->red" =>
                    /\ EstimateOf(exact[k].hospital) # {}
                    /\ \A e \in EstimateOf(exact[k].hospital) :
                            /\ ~IsNull(e.red_threshold)
                            /\ Val(e.red_threshold) <= exact[k].at_threshold

\* A hospital seen green at 1, amber at 2 and green at 3 was analyzed: the
\* boundary green->amber at 2 is reported and its amber_threshold is 2.
C26_Witness ==
    /\ apc = "analyzed"
    /\ Observations("X") = {[count |-> 1, color |-> "green"], [count |-> 2, color |-> "amber"],
                            [count |-> 3, color |-> "green"]}
    /\ \E k \in 1..Len(exact) :
            exact[k].boundary_type = "green->amber" /\ exact[k].at_threshold = 2
    /\ \A e \in EstimateOf("X") : e.amber_threshold = Some(2)

(***************************************************************************)
(* The pages the scrapers are run on.  A page is laid out as rows; a row   *)
(* of entities is a sequence of segments: a wide name cell, an optional    *)
(* empty spacer and a block of statistic cells, or a single filler cell.   *)
(***************************************************************************)
MaxRows == 4
MaxSegs == 2

Cell(text, colspan, classes, width) ==
    [text |-> text, colspan |-> colspan, class |-> ListAttr(classes), width |-> width]

Spacer == Cell("", <<>>, <<>>, "10")

\* the texts and the classes of the twelve cells that follow a name cell
BlockTexts(profile) ==
    CASE profile = "full" -> <<"4", "5", " 9 ", "", "2", "", "7", "", "3", "", "1", "">>
      [] profile = "noED" -> <<"", "6", "6", "", "0", "", "8", "", "", "", "2", "">>
      [] profile = "blank" -> <<"", "", "", "", "", "", "", "", "", "", "", "">>
      [] profile = "short" -> <<"4", "5", "9", "", "2">>
      [] profile = "dense" -> <<"4", "5", "9", "13", "2", "15", "7", "17", "3", "19", "1", "21">>
      [] OTHER -> <<>>

BlockClasses(profile, k) ==
    CASE profile = "full" /\ k = 3 -> <<"red">>
      [] profile = "full" /\ k = 5 -> <<"green">>
      [] profile = "full" /\ k = 7 -> <<"bg-amber">>
      [] profile = "noED" /\ k = 3 -> <<"text-green", "bold">>
      [] profile = "dense" /\ k = 3 -> <<"amber">>
      [] profile = "dense" /\ k = 4 -> <<"red">>
      [] profile = "dense" /\ k = 7 -> <<"green">>
      [] profile = "dense" /\ k = 8 -> <<"red">>
      [] OTHER -> <<>>

\* the statistic cells of a profile, at most perEntity of them
Block(profile, perEntity) ==
    [k \in 1..Min2(perEntity, Len(BlockTexts(profile))) |->
        Cell(BlockTexts(profile)[k], <<>>, BlockClasses(profile, k),
             IF k % 2 = 0 /\ k > 3 THEN "10" ELSE "50")]

Wide(name, spacer, profile) ==
    [kind |-> "wide", name |-> name, spacer |-> spacer, profile |-> profile]
Filler == [kind |-> "filler", name |-> " ", spacer |-> FALSE, profile |-> "none"]
Narrow == [kind |-> "narrow", name |-> "Ward", spacer |-> FALSE, profile |-> "none"]

Segments ==
    {Wide("Beaumont Hospital", TRUE, "full"), Wide("Beaumont Hospital", FALSE, "dense"),
     Wide("National Total", TRUE, "noED"), Wide("National Total", FALSE, "noED"),
     Wide("Cork Hospital", TRUE, "short"), Wide("Cork Hospital", TRUE, "blank"),
     Wide("HSE West and North West", TRUE, "none"),
     Wide("HSE West and North West", FALSE, "none"),
     Wide("HSE Total Care Unit", TRUE, "full"),
     Wide("HSE Midland Hospital", TRUE, "full"),
     Wide("", FALSE, "none"),
     Filler, Narrow}

SegCells(seg, perEntity) ==
    CASE seg.kind = "wide" ->
            <<Cell(seg.name, <<IF seg.profile = "noED" THEN 8 ELSE 10>>, <<>>, "")>>
            \o (IF seg.spacer THEN <<Spacer>> ELSE <<>>)
            \o Block(seg.profile, perEntity)
      [] seg.kind = "filler" -> <<Cell(seg.name, <<>>, <<>>, "")>>
      [] OTHER -> <<Cell(seg.name, <<7>>, <<>>, "")>>

RECURSIVE SegsCells(_, _)
SegsCells(segs, perEntity) ==
    IF Len(segs) = 0 THEN <<>>
    ELSE SegCells(Head(segs), perEntity) \o SegsCells(Tail(segs), perEntity)

\* n entities of one name, each with a spacer and a full block
Roster(n, name, perEntity) ==
    LET unit == SegCells(Wide(name, TRUE, "full"), perEntity)
    IN  [k \in 1..(n * Len(unit)) |-> unit[((k - 1) % Len(unit)) + 1]]

HeaderRow == <<Cell("Hospital", <<10>>, <<>>, ""), Cell("ED", <<>>, <<>>, ""),
               Cell("Ward", <<>>, <<>>, ""), Cell("Total", <<>>, <<>>, "")>>

RowKinds == {"header", "noise", "roster49", "blank50", "roster62"}

RowCells(kind, segs, perEntity) ==
    CASE kind = "header" -> HeaderRow
      [] kind = "noise" -> Roster(2, "Naas Hospital", perEntity)
      [] kind = "roster49" -> Roster(49, "Mayo Hospital", perEntity)
      [] kind = "blank50" ->
            Roster(49, "Sligo Hospital", perEntity) \o <<Cell("", <<10>>, <<>>, "")>>
      [] kind = "roster62" -> Roster(62, "Mater Hospital", perEntity)
      [] kind = "focus" -> Roster(50, "Mater Hospital", perEntity) \o SegsCells(segs, perEntity)
      [] OTHER -> SegsCells(segs, perEntity)

\* the statistic cells per entity the page of a mode is laid out with
CellsPerEntity(m) == IF m = "daily" THEN 11 ELSE 12

\* rows <<"split">> lays every segment out as a row of its own
Layouts(m) ==
    {[table |-> FALSE, rows |-> <<>>, segs |-> <<>>]}
    \cup {[table |-> TRUE, rows |-> IF m = "daily" THEN <<"header", "header", "focus">>
                                    ELSE <<"tail">>,
           segs |-> ss] : ss \in SeqsUpTo(Segments, MaxSegs)}
    \cup (IF m = "daily"
          THEN {[table |-> TRUE, rows |-> rs, segs |-> <<>>] : rs \in SeqsUpTo(RowKinds, MaxRows)}
          ELSE {[table |-> TRUE, rows |-> <<"split">>, segs |-> ss] :
                    ss \in SeqsUpTo(Segments, MaxSegs)})

\* the parsed page: [table |-> Null or Some(the rows, each the cells of a tr)]
PageOf(lay, m) ==
    IF lay.table
    THEN [table |-> Some(IF lay.rows = <<"split">>
                         THEN [k \in 1..Len(lay.segs) |->
                                 SegCells(lay.segs[k], CellsPerEntity(m))]
                         ELSE [k \in 1..Len(lay.rows) |->
                                 RowCells(lay.rows[k], lay.segs, CellsPerEntity(m))])]
    ELSE [table |-> Null]

page == PageOf(layout, mode)

Init ==
    /\ mode \in {"daily", "v2", "rows"}
    /\ reportDate = "15/01/2026"
    /\ layout \in Layouts(mode)
    /\ data_row = Null
    /\ returned = [kind |-> "pending", rows |-> <<>>]
    /\ phase = "start"
    /\ IdleClassifier
    /\ IdleAnalysis
    /\ IdleRange
    /\ IdleStore
    /\ IdleCli

None == [kind |-> "None", rows |-> <<>>]
Frame(rows) == [kind |-> "frame", rows |-> rows]

\* scrape_hse_data.py:138-151: the frame of the records, with report_date
\* (scrape_date, the wall clock of the run, is left out)
MasterFrame(date_str, data) ==
    Frame([k \in 1..Len(data) |->
        [Hospital |-> data[k].Hospital,
         ED_Trolleys |-> data[k].ED_Trolleys,
         Ward_Trolleys |-> data[k].Ward_Trolleys,
         Total_Trolleys |-> data[k].Total_Trolleys,
         Surge_Capacity_in_Use |-> data[k].Surge_Capacity_in_Use,
         Delayed_Transfers_of_Care |-> data[k].Delayed_Transfers_of_Care,
         Total_Waiting_gt_24hrs |-> data[k].Total_Waiting_gt_24hrs,
         Age_75plus_Waiting_gt_24hrs |-> data[k].Age_75plus_Waiting_gt_24hrs,
         report_date |-> date_str]])

\* scrape_hse_data.py:47-69: data_row on the parsed page pg
master_data_row(pg) == IF IsNull(pg.table) THEN Null ELSE MasterRowIndex(Val(pg.table))

\* scrape_hse_data.py:44-155: what scrape_hse_trolleygar(date_str) returns on the
\* parsed page pg
scrape_hse_trolleygar(date_str, pg) ==
    IF IsNull(pg.table) THEN None
    ELSE IF IsNull(master_data_row(pg)) THEN None
    ELSE MasterFrame(date_str, MasterScan(Val(pg.table)[Val(master_data_row(pg))],
                                          [i |-> 0, data |-> <<>>]))

\* scrape_hse_trolleygar(date_str) on a fetched page (scrape_hse_data.py:44-155)
ScrapeDaily ==
    /\ phase = "start" /\ mode = "daily"
    /\ data_row' = master_data_row(page)
    /\ returned' = scrape_hse_trolleygar(reportDate, page)
    /\ phase' = "done"
    /\ UNCHANGED <<mode, reportDate, layout, classifierVars, analysisVars, rangeVars, storeVars, cliVars>>

\* scrape_colors.py:135-141, 229-235
FrameOrNone(data) == IF Len(data) = 0 THEN None ELSE Frame(data)

\* scrape_colors.py:159-235: what scrape_with_colors_v2(date_str) returns on the
\* parsed page pg
scrape_with_colors_v2(date_str, pg) ==
    IF IsNull(pg.table) THEN None
    ELSE FrameOrNone(V2Scan(date_str, Flatten(Val(pg.table)), [i |-> 0, data |-> <<>>]))

\* scrape_colors.py:53-141: what scrape_with_colors(date_str) returns on the
\* parsed page pg
scrape_with_colors(date_str, pg) ==
    IF IsNull(pg.table) THEN None
    ELSE FrameOrNone(RowsScan(date_str, Val(pg.table)))

\* scrape_with_colors_v2(date_str) on a fetched page (scrape_colors.py:159-235)
ScrapeColorsV2 ==
    /\ phase = "start" /\ mode = "v2"
    /\ returned' = scrape_with_colors_v2(reportDate, page)
    /\ phase' = "done"
    /\ UNCHANGED <<mode, reportDate, layout, data_row, classifierVars, analysisVars, rangeVars, storeVars, cliVars>>

\* scrape_with_colors(date_str) on a fetched page (scrape_colors.py:53-141)
ScrapeColors ==
    /\ phase = "start" /\ mode = "rows"
    /\ returned' = scrape_with_colors(reportDate, page)
    /\ phase' = "done"
    /\ UNCHANGED <<mode, reportDate, layout, data_row, classifierVars, analysisVars, rangeVars, storeVars, cliVars>>

Next == ScrapeDaily \/ ScrapeColorsV2 \/ ScrapeColors

Spec == Init /\ [][Next]_vars

\* The claims' regional header: a name that starts with the region prefix and
\* ends with neither Total nor Hospital.
RegionalHeaderName(name) ==
    /\ StartsWith(name, "HSE ")
    /\ ~EndsWith(name, "Total")
    /\ ~EndsWith(name, "Hospital")

RecordName(rec) == IF mode = "daily" THEN rec.Hospital ELSE rec.hospital

\* C1: whatever the cells of the page, no record returned by the master-row
\* scan, by scrape_with_colors_v2 or by scrape_with_colors carries the name of
\* a regional header.
C1_NoRegionalHeaderRecord ==
    phase = "done" =>
        \A k \in 1..Len(returned.rows) : ~RegionalHeaderName(RecordName(returned.rows[k]))

\* An entity as the round trip builds it: a non-empty name that is no regional
\* header, an optional spacer, a block of the full number of statistic cells.
EntitySeg(seg) ==
    /\ seg.kind = "wide"
    /\ Strip(seg.name) # ""
    /\ ~RegionalHeaderName(Strip(seg.name))
    /\ seg.profile \in {"full", "noED", "blank", "dense"}

\* the value a field holds for a cell text: the text, null when it is empty
FieldOf(raw) == IF Strip(raw) = "" THEN Null ELSE Some(Strip(raw))

BlockTotalColor(profile) ==
    CASE profile = "full" -> "red" [] profile = "noED" -> "green"
      [] profile = "dense" -> "amber" [] OTHER -> "none"
BlockDelayedColor(profile) ==
    CASE profile = "full" -> "amber" [] profile = "dense" -> "green" [] OTHER -> "none"

\* the record the entity of a segment was built to give
BuiltRecord(seg, m) ==
    LET t == BlockTexts(seg.profile)
    IN  IF m = "daily"
        THEN [Hospital |-> Strip(seg.name),
              ED_Trolleys |-> FieldOf(t[1]), Ward_Trolleys |-> FieldOf(t[2]),
              Total_Trolleys |-> FieldOf(t[3]), Surge_Capacity_in_Use |-> FieldOf(t[5]),
              Delayed_Transfers_of_Care |-> FieldOf(t[7]),
              Total_Waiting_gt_24hrs |-> FieldOf(t[9]),
              Age_75plus_Waiting_gt_24hrs |-> FieldOf(t[11]),
              report_date |-> reportDate]
        ELSE [date |-> reportDate, hospital |-> Strip(seg.name),
              ed_trolleys |-> FieldOf(t[1]), ward_trolleys |-> FieldOf(t[2]),
              total_trolleys |-> FieldOf(t[3]),
              total_color |-> BlockTotalColor(seg.profile),
              surge |-> FieldOf(t[5]), delayed |-> FieldOf(t[7]),
              delayed_color |-> BlockDelayedColor(seg.profile),
              gt_24hrs |-> FieldOf(t[9]), gt_75_24hrs |-> FieldOf(t[11])]

\* the entities the decoded row of a layout was built from, left to right
BuiltEntities(lay) ==
    (IF lay.rows = <<"focus">> \/ lay.rows = <<"header", "header", "focus">>
     THEN [k \in 1..50 |-> Wide("Mater Hospital", TRUE, "full")] ELSE <<>>) \o lay.segs

EntityRow(lay) ==
    /\ lay.table
    /\ lay.rows \in {<<"tail">>, <<"header", "header", "focus">>}
    /\ \A k \in 1..Len(lay.segs) : EntitySeg(lay.segs[k])

\* C2: a row built from N entities (name cell, optional empty spacer, block of 11
\* statistic cells in the master-row scan and 12 in scrape_with_colors_v2, the
\* first statistic possibly empty) decodes to exactly N records, in the order of
\* the entities, with the name and the statistics the row was built from.
C2_RoundTrip ==
    (phase = "done" /\ mode \in {"daily", "v2"} /\ EntityRow(layout)) =>
        returned.rows = [k \in 1..Len(BuiltEntities(layout)) |->
                            BuiltRecord(BuiltEntities(layout)[k], mode)]

\* An entity boundary: a cell of span >= 8 with non-empty text.
EntityBoundary(cell) == Colspan(cell) >= 8 /\ Text(cell) # ""
BoundaryCount(cells) == Cardinality({k \in 1..Len(cells) : EntityBoundary(cells[k])})
CellTexts(cells) == {Text(cells[k]) : k \in 1..Len(cells)}

\* C3: the master-row scan decodes the first row after the two header rows with
\* 50 or more entity boundaries and no other row; when no row has that many it
\* returns None and no records.
C3_OnlyFirstQualifyingRow ==
    (phase = "done" /\ mode = "daily" /\ layout.table) =>
        LET rows == Val(page.table)
            Q == {k \in 3..Len(rows) : BoundaryCount(rows[k]) >= 50}
        IN  IF Q = {}
            THEN data_row = Null /\ returned = None
            ELSE /\ data_row = Some(SetMin(Q))
                 /\ returned.kind = "frame"
                 /\ \A k \in 1..Len(returned.rows) :
                        returned.rows[k].Hospital \in CellTexts(rows[SetMin(Q)])

\* a table of lead header rows, a row of 62 entity boundaries, then rows of
\* fewer than 50 entity boundaries each
RosterAfterHeaders(lead) ==
    /\ layout.table
    /\ Len(layout.rows) > lead
    /\ \A k \in 1..lead : layout.rows[k] = "header"
    /\ BoundaryCount(Val(page.table)[lead + 1]) = 62
    /\ \A k \in (lead + 2)..Len(layout.rows) : BoundaryCount(Val(page.table)[k]) < 50

\* the scan selected row k and returned its 62 entities
DecodedRow(k) ==
    /\ data_row = Some(k)
    /\ returned.kind = "frame"
    /\ Len(returned.rows) = 62
    /\ \A j \in 1..Len(returned.rows) :
            returned.rows[j].Hospital \in CellTexts(Val(page.table)[k])

\* C4 as stated: on 1 header row, then a row of 62 entity boundaries, then noise
\* rows of fewer than 50 each, the master-row scan selects and decodes the
\* row of 62.
C4_OneHeaderRow ==
    (phase = "done" /\ mode = "daily" /\ RosterAfterHeaders(1)) => DecodedRow(2)

\* C4 amended: on 2 header rows, then a row of 62 entity boundaries, then noise
\* rows of fewer than 50 each, the master-row scan selects and decodes the
\* row of 62.
C4_TwoHeaderRows ==
    (phase = "done" /\ mode = "daily" /\ RosterAfterHeaders(2)) => DecodedRow(3)

\* The scan has run on two header rows, the roster of 62 and a noise row.
C4_Witness ==
    /\ phase = "done" /\ mode = "daily"
    /\ layout.rows = <<"header", "header", "roster62", "noise">>
    /\ RosterAfterHeaders(2)
    /\ DecodedRow(3)

\* C18: a page without a table element is reported with an outcome (None, the
\* return of the no-table branch) that no page with a table is reported with:
\* a parse that found a table and produced zero records is told apart from it.
C18_NoTableDistinct ==
    (phase = "done" /\ layout.table) => returned # None

\* the number of non-empty statistic values of a block
NonEmptyStats(profile) ==
    Cardinality({k \in 1..Len(BlockTexts(profile)) : Strip(BlockTexts(profile)[k]) # ""})

\* An input of entities, each a name cell, a spacer and a block of the full
\* number of cells: in one row for scrape_with_colors_v2, or a row each.
FullBlockEntities(lay) ==
    /\ lay.table
    /\ lay.rows = <<"split">> \/ (mode = "v2" /\ lay.rows = <<"tail">>)
    /\ Len(lay.segs) > 0
    /\ \A k \in 1..Len(lay.segs) :
         /\ EntitySeg(lay.segs[k])
         /\ lay.segs[k].spacer
         /\ ~StartsWith(Strip(lay.segs[k].name), "HSE ")

\* the names of the entities of a layout with 3 or more non-empty statistic values
NamesWithValues(lay) ==
    LET Enough(seg) == NonEmptyStats(seg.profile) >= 3
        kept == SelectSeq(lay.segs, Enough)
    IN  [k \in 1..Len(kept) |-> Strip(kept[k].name)]

\* C19: an entity with fewer than 3 non-empty statistic values yields no record,
\* also when its block has the full number of cells and they are empty, and the
\* other entities of the input still yield their records: the records returned
\* are, in order, those of the entities with 3 or more non-empty values.
C19_FewValuesNoRecord ==
    (phase = "done" /\ mode \in {"v2", "rows"} /\ FullBlockEntities(layout)) =>
        [k \in 1..Len(returned.rows) |-> returned.rows[k].hospital] = NamesWithValues(layout)

RECURSIVE RowByRow(_, _)
\* the records of the rows of a table from row k on, each row decoded on its own
RowByRow(rows, k) ==
    IF k > Len(rows) THEN <<>>
    ELSE (IF mode = "v2" THEN V2Scan(reportDate, rows[k], [i |-> 0, data |-> <<>>])
          ELSE RowRecords(reportDate, rows[k]))
         \o RowByRow(rows, k + 1)

\* C20: the records scrape_with_colors_v2 and scrape_with_colors obtain from a
\* table are the concatenation of the records obtained by decoding each row on
\* its own: no statistic block holds a cell of another row.
C20_RowsIndependent ==
    (phase = "done" /\ mode \in {"v2", "rows"} /\ layout.table) =>
        returned.rows = RowByRow(Val(page.table), 1)

(***************************************************************************)
(* scrape_date_range (scrape_colors.py:238-270, scrape_hse_data.py:193-227)*)
(*                                                                         *)
(* A datetime is [day, month, year].  calls lists the requests.get and     *)
(* time.sleep calls in the order the run makes them; a get carries the     *)
(* date it asked for and what the scrape of that date came to.             *)
(***************************************************************************)
\* datetime.strptime(s, '%d/%m/%Y')
Strptime(s) ==
    [day |-> DecimalValue(SubSeq(s, 1, 2), 0),
     month |-> DecimalValue(SubSeq(s, 4, 5), 0),
     year |-> DecimalValue(SubSeq(s, 7, 10), 0)]

DigitStr(n) == SubSeq(Digits, n + 1, n + 1)
Pad2(n) == DigitStr((n \div 10) % 10) \o DigitStr(n % 10)

\* current.strftime('%d/%m/%Y')
Strftime(d) ==
    Pad2(d.day) \o "/" \o Pad2(d.month) \o "/" \o Pad2(d.year \div 100) \o Pad2(d.year % 100)

IsLeap(y) == (y % 4 = 0 /\ y % 100 # 0) \/ y % 400 = 0

DaysInMonth(m, y) ==
    IF m = 2 THEN (IF IsLeap(y) THEN 29 ELSE 28)
    ELSE IF m \in {4, 6, 9, 11} THEN 30
    ELSE 31

\* current + timedelta(days=1)
NextDay(d) ==
    IF d.day < DaysInMonth(d.month, d.year) THEN [d EXCEPT !.day = d.day + 1]
    ELSE IF d.month < 12 THEN [day |-> 1, month |-> d.month + 1, year |-> d.year]
    ELSE [day |-> 1, month |-> 1, year |-> d.year + 1]

\* current <= end
DateLeq(a, b) ==
    \/ a.year < b.year
    \/ a.year = b.year /\ a.month < b.month
    \/ a.year = b.year /\ a.month = b.month /\ a.day <= b.day

Raised == [kind |-> "raise", rows |-> <<>>]
GetCall(date_str, got) == [op |-> "get", date |-> date_str, result |-> got.kind, rows |-> got.rows]
SleepCall == [op |-> "sleep", date |-> "", result |-> "", rows |-> <<>>]

\* The mutation of Collected that starts the collection again when a date gave None.
CollectedResetOnNone(all, got) == IF got # None THEN Append(all, got) ELSE <<>>

\* if df is not None: all_data.append(df)
Collected(all, got) == IF got # None THEN Append(all, got) ELSE all

RECURSIVE ConcatRows(_)
\* pd.concat(all_data, ignore_index=True)
ConcatRows(frames) ==
    IF Len(frames) = 0 THEN <<>> ELSE Head(frames).rows \o ConcatRows(Tail(frames))

\* the scraper the loop of a runner calls, and the kind of page it is given
ScraperMode(r) == IF r = "colors" THEN "v2" ELSE "daily"
Scraped(r, date_str, pg) ==
    IF r = "colors" THEN scrape_with_colors_v2(date_str, pg)
    ELSE scrape_hse_trolleygar(date_str, pg)

MaxSpan == 2

\* runs of consecutive calendar days the start and the end date are taken from
Calendars ==
    {<<"28/02/2024", "29/02/2024", "01/03/2024", "02/03/2024", "03/03/2024">>,
     <<"27/02/2025", "28/02/2025", "01/03/2025", "02/03/2025", "03/03/2025">>,
     <<"30/12/2025", "31/12/2025", "01/01/2026", "02/01/2026", "03/01/2026">>}

CalendarDates(cal) == {cal[k] : k \in 1..Min2(Len(cal), MaxSpan + 1)}

\* the pages the remote service answers a date with
RangeLayouts(r) ==
    {[table |-> FALSE, rows |-> <<>>, segs |-> <<>>]}
    \cup (IF r = "colors"
          THEN {[table |-> TRUE, rows |-> <<"tail">>, segs |-> ss] :
                    ss \in {<<>>, <<Wide("Beaumont Hospital", TRUE, "full")>>,
                            <<Wide("Beaumont Hospital", TRUE, "full"),
                              Wide("National Total", TRUE, "noED")>>}}
          ELSE {[table |-> TRUE, rows |-> <<"header", "header", "noise">>, segs |-> <<>>],
                [table |-> TRUE, rows |-> <<"header", "header", "focus">>, segs |-> <<>>]})

\* lines 250-254 (205-209 in scrape_hse_data.py)
InitRange ==
    /\ runner \in {"colors", "daily"}
    /\ \E cal \in Calendars :
        /\ start_date \in CalendarDates(cal)
        /\ end_date \in CalendarDates(cal)
    /\ current = Strptime(start_date)
    /\ all_data = <<>>
    /\ calls = <<>>
    /\ combined = [kind |-> "pending", rows |-> <<>>]
    /\ rpc = "test"
    /\ IdleClassifier
    /\ IdleAnalysis
    /\ IdleScraper
    /\ IdleStore
    /\ IdleCli

\* line 256 (211): while current <= end
RangeTest ==
    /\ rpc = "test"
    /\ rpc' = IF DateLeq(current, Strptime(end_date)) THEN "scrape" ELSE "return"
    /\ UNCHANGED <<runner, start_date, end_date, current, all_data, calls, combined>>
    /\ UNCHANGED <<classifierVars, analysisVars, scraperVars, storeVars, cliVars>>

\* lines 257-261 (212-216): the scrape of the date returns, a frame or None
RangeScrape ==
    /\ rpc = "scrape"
    /\ \E lay \in RangeLayouts(runner) :
        LET date_str == Strftime(current)
            got == Scraped(runner, date_str, PageOf(lay, ScraperMode(runner)))
        IN  /\ calls' = Append(calls, GetCall(date_str, got))
            /\ all_data' = Collected(all_data, got)
    /\ rpc' = "advance"
    /\ UNCHANGED <<runner, start_date, end_date, current, combined>>
    /\ UNCHANGED <<classifierVars, analysisVars, scraperVars, storeVars, cliVars>>

\* lines 262-263 (218-219): requests.get or raise_for_status raises, the
\* exception is caught and printed
RangeRaise ==
    /\ rpc = "scrape"
    /\ calls' = Append(calls, GetCall(Strftime(current), Raised))
    /\ rpc' = "advance"
    /\ UNCHANGED <<runner, start_date, end_date, current, all_data, combined>>
    /\ UNCHANGED <<classifierVars, analysisVars, scraperVars, storeVars, cliVars>>

\* lines 265-266: current += timedelta(days=1); time.sleep(delay).
\* scrape_hse_data.py:217, 220: current += timedelta(days=1) and no sleep.
RangeAdvance ==
    /\ rpc = "advance"
    /\ current' = NextDay(current)
    /\ calls' = IF runner = "colors" THEN Append(calls, SleepCall) ELSE calls
    /\ rpc' = "test"
    /\ UNCHANGED <<runner, start_date, end_date, all_data, combined>>
    /\ UNCHANGED <<classifierVars, analysisVars, scraperVars, storeVars, cliVars>>

\* lines 268-270 (223-227; save_to_sqlite, which stores the frame, is left out)
RangeReturn ==
    /\ rpc = "return"
    /\ combined' = IF Len(all_data) > 0 THEN Frame(ConcatRows(all_data)) ELSE None
    /\ rpc' = "done"
    /\ UNCHANGED <<runner, start_date, end_date, current, all_data, calls>>
    /\ UNCHANGED <<classifierVars, analysisVars, scraperVars, storeVars, cliVars>>

NextRange == RangeTest \/ RangeScrape \/ RangeRaise \/ RangeAdvance \/ RangeReturn

\* The run is one sequential thread: a step that can be taken is taken.
SpecRange == InitRange /\ [][NextRange]_vars /\ WF_vars(NextRange)

\* the number of a calendar date, counted in days
DaysBeforeYear(y) == 365 * (y - 1) + ((y - 1) \div 4) - ((y - 1) \div 100) + ((y - 1) \div 400)
DaysBeforeMonth(m, y) ==
    <<0, 31, 59, 90, 120, 151, 181, 212, 243, 273, 304, 334>>[m]
    + (IF m > 2 /\ IsLeap(y) THEN 1 ELSE 0)
DayNumber(date) ==
    LET d == Strptime(date)
    IN  DaysBeforeYear(d.year) + DaysBeforeMonth(d.month, d.year) + d.day

IsGet(call) == call.op = "get"
Gets == SelectSeq(calls, IsGet)
Succeeded(call) == call.op = "get" /\ call.result = "frame"

\* so far one fetch was made for each of the first dates of [start, end], in
\* ascending order, and the collection holds the records of the fetches that
\* gave a frame, in that order; at the return every date of [start, end] was
\* fetched and the returned collection holds those records
RangeIsolated ==
    /\ \A k \in 1..Len(Gets) :
        /\ DayNumber(Gets[k].date) = DayNumber(start_date) + k - 1
        /\ DayNumber(Gets[k].date) <= DayNumber(end_date)
        /\ Gets[k].date = Strftime(Strptime(Gets[k].date))
    /\ ConcatRows(all_data) = ConcatRows(SelectSeq(calls, Succeeded))
    /\ rpc = "done" =>
        /\ DayNumber(start_date) <= DayNumber(end_date) =>
                Len(Gets) = DayNumber(end_date) - DayNumber(start_date) + 1
        /\ combined.kind # "pending"
        /\ combined.rows = ConcatRows(SelectSeq(calls, Succeeded))

C17_DelayBetweenFetches ==
    \A k \in 1..(Len(calls) - 1) : ~(calls[k].op = "get" /\ calls[k + 1].op = "get")

(***************************************************************************)
(* Persistence: save_to_csv, save_to_sqlite, remove_duplicates_from_db     *)
(* (scrape_hse_data.py:158-190, 230-274, 277-314).                         *)
(*                                                                         *)
(* A value of a pandas frame is a str, an int, a float or NaN/None; a line *)
(* of the CSV file is the text of its fields; a row of the SQLite table is *)
(* the TEXT or NULL of its columns.  Floats are whole numbers here, which  *)
(* is all a column of counts read back from the file can hold.             *)
(***************************************************************************)
\* scrape_hse_data.py:138-151: the columns of the frame (scrape_date left out)
StoreColumns ==
    {"Hospital", "ED_Trolleys", "Ward_Trolleys", "Total_Trolleys", "Surge_Capacity_in_Use",
     "Delayed_Transfers_of_Care", "Total_Waiting_gt_24hrs", "Age_75plus_Waiting_gt_24hrs",
     "report_date"}

\* the columns that hold a str in every row of the scraper's frame
NameColumns == {"Hospital", "report_date"}

StrValue(s) == [kind |-> "str", text |-> s, num |-> 0]
IntValue(n) == [kind |-> "int", text |-> "", num |-> n]
FloatValue(n) == [kind |-> "float", text |-> "", num |-> n]
NaN == [kind |-> "nan", text |-> "", num |-> 0]

\* the frame scrape_hse_trolleygar returns, as values: every column is of dtype
\* object and holds str or None (lines 116, 138-151)
FrameValues(rows) ==
    [k \in 1..Len(rows) |->
        [c \in StoreColumns |->
            IF c \in NameColumns THEN StrValue(rows[k][c])
            ELSE IF IsNull(rows[k][c]) THEN NaN
            ELSE StrValue(Val(rows[k][c]))]]

RECURSIVE IntToStr(_)
IntToStr(n) == IF n < 10 THEN DigitStr(n) ELSE IntToStr(n \div 10) \o DigitStr(n % 10)

\* to_csv of one value
CsvField(v) ==
    CASE v.kind = "str" -> v.text
      [] v.kind = "int" -> IntToStr(v.num)
      [] v.kind = "float" -> IntToStr(v.num) \o ".0"
      [] OTHER -> ""

\* df.to_csv(filename, index=False): the data lines
to_csv(values) == [k \in 1..Len(values) |-> [c \in StoreColumns |-> CsvField(values[k][c])]]

IsIntText(s) == Len(s) > 0 /\ \A k \in 1..Len(s) : IsDigit(SubSeq(s, k, k))
IsFloatText(s) == Len(s) > 2 /\ EndsWith(s, ".0") /\ IsIntText(SubSeq(s, 1, Len(s) - 2))
NumberOf(s) ==
    IF IsIntText(s) THEN DecimalValue(s, 0) ELSE DecimalValue(SubSeq(s, 1, Len(s) - 2), 0)

\* pd.read_csv: the dtype it infers for a column from the fields of all lines
ColumnKind(lines, c) ==
    LET texts == {lines[k][c] : k \in 1..Len(lines)}
        filled == texts \ {""}
    IN  IF filled = {} THEN "float"
        ELSE IF \A t \in filled : IsIntText(t) THEN (IF "" \in texts THEN "float" ELSE "int")
        ELSE IF \A t \in filled : IsIntText(t) \/ IsFloatText(t) THEN "float"
        ELSE "str"

\* pd.read_csv(filename): an empty field is NaN, a column of numbers is numeric
read_csv(lines) ==
    [k \in 1..Len(lines) |->
        [c \in StoreColumns |->
            IF lines[k][c] = "" THEN NaN
            ELSE IF ColumnKind(lines, c) = "int" THEN IntValue(NumberOf(lines[k][c]))
            ELSE IF ColumnKind(lines, c) = "float" THEN FloatValue(NumberOf(lines[k][c]))
            ELSE StrValue(lines[k][c])]]

\* equality of two values as drop_duplicates hashes them: a number is never
\* equal to a str; None and NaN are both missing
SameValue(a, b) ==
    \/ a = b
    \/ a.kind \in {"int", "float"} /\ b.kind \in {"int", "float"} /\ a.num = b.num

SameRow(r1, r2) == \A c \in StoreColumns : SameValue(r1[c], r2[c])

\* combined_df.drop_duplicates(): the first of every group of equal rows is kept
drop_duplicates(values) ==
    LET First(k) == \A j \in 1..(k - 1) : ~SameRow(values[j], values[k])
        kept == SelectSeq([k \in 1..Len(values) |-> k], First)
    IN  [k \in 1..Len(kept) |-> values[kept[k]]]

\* save_to_csv(df, filename, append=True) (lines 173-187): the file it leaves
save_to_csv(file, rows) ==
    IF ~IsNull(file)
    THEN Some(to_csv(drop_duplicates(read_csv(Val(file)) \o FrameValues(rows))))
    ELSE Some(to_csv(FrameValues(rows)))

\* df.to_sql(...): the rows inserted, TEXT or NULL in every column
SqlRows(rows) ==
    [k \in 1..Len(rows) |->
        [c \in StoreColumns |-> IF c \in NameColumns THEN Some(rows[k][c]) ELSE rows[k][c]]]

\* save_to_sqlite(df, db_name) (lines 242-271): if_exists='append' creates the
\* table when there is none
save_to_sqlite(table, rows) ==
    Some((IF IsNull(table) THEN <<>> ELSE Val(table)) \o SqlRows(rows))

\* remove_duplicates_from_db (lines 289-311) on an existing table:
\* SELECT DISTINCT * replaces the table
remove_duplicates_from_db(table) ==
    LET rows == Val(table)
        First(k) == \A j \in 1..(k - 1) : rows[j] # rows[k]
        kept == SelectSeq([k \in 1..Len(rows) |-> k], First)
    IN  Some([k \in 1..Len(kept) |-> rows[kept[k]]])

MaxOps == 4

\* a frame of one record: an entity followed by the block of a profile
OneRecord(name, profile) ==
    MasterFrame("15/01/2026", <<MasterRecord(name, MasterStats(Block(profile, 11), 0))>>).rows

StoreFrames ==
    {OneRecord("Mayo Hospital", "full"), OneRecord("Cork Hospital", "blank"),
     OneRecord("National Total", "noED")}

InitStore ==
    /\ csv_file = Null
    /\ db_table = Null
    /\ hist = <<>>
    /\ IdleClassifier
    /\ IdleAnalysis
    /\ IdleScraper
    /\ IdleRange
    /\ IdleCli

Stored(op, rows, file, table) == [op |-> op, frame |-> rows, csv |-> file, db |-> table]

\* save_to_csv(df, args.output, append=True) (line 386, 338)
SaveCsv ==
    /\ Len(hist) < MaxOps
    /\ \E rows \in StoreFrames :
        /\ csv_file' = save_to_csv(csv_file, rows)
        /\ hist' = Append(hist, Stored("save_to_csv", rows, csv_file', db_table))
    /\ UNCHANGED <<db_table, classifierVars, analysisVars, scraperVars, rangeVars, cliVars>>

\* save_to_sqlite(df, args.output) (line 388, 336, 225)
SaveSqlite ==
    /\ Len(hist) < MaxOps
    /\ \E rows \in StoreFrames :
        /\ db_table' = save_to_sqlite(db_table, rows)
        /\ hist' = Append(hist, Stored("save_to_sqlite", rows, csv_file, db_table'))
    /\ UNCHANGED <<csv_file, classifierVars, analysisVars, scraperVars, rangeVars, cliVars>>

\* remove_duplicates_from_db(args.output) (line 407) on an existing table
RemoveDuplicates ==
    /\ Len(hist) < MaxOps
    /\ ~IsNull(db_table)
    /\ db_table' = remove_duplicates_from_db(db_table)
    /\ hist' = Append(hist, Stored("remove_duplicates_from_db", <<>>, csv_file, db_table'))
    /\ UNCHANGED <<csv_file, classifierVars, analysisVars, scraperVars, rangeVars, cliVars>>

NextStore == SaveCsv \/ SaveSqlite \/ RemoveDuplicates

SpecStore == InitStore /\ [][NextStore]_vars

CountOf(rows, row) == Cardinality({k \in 1..Len(rows) : rows[k] = row})

\* the same record was appended by the last two save_to_csv calls
CsvTwice(k) ==
    /\ k > 1
    /\ hist[k].op = "save_to_csv" /\ hist[k - 1].op = "save_to_csv"
    /\ hist[k].frame = hist[k - 1].frame

\* the same record was appended and duplicates removed, twice in a row
SqliteTwice(k) ==
    /\ k > 3
    /\ hist[k].op = "remove_duplicates_from_db" /\ hist[k - 1].op = "save_to_sqlite"
    /\ hist[k - 2].op = "remove_duplicates_from_db" /\ hist[k - 3].op = "save_to_sqlite"
    /\ hist[k - 1].frame = hist[k - 3].frame

\* C21: from any store contents, appending the same record twice with dedup
\* (save_to_csv with append=True, or save_to_sqlite followed by
\* remove_duplicates_from_db) leaves exactly one stored row equal to that
\* record, and the second append changes nothing in the stored table.
C21_DedupIdempotent ==
    \A k \in 1..Len(hist) :
        /\ CsvTwice(k) =>
            /\ CountOf(Val(hist[k].csv), to_csv(FrameValues(hist[k].frame))[1]) = 1
            /\ hist[k].csv = hist[k - 1].csv
        /\ SqliteTwice(k) =>
            /\ CountOf(Val(hist[k].db), SqlRows(hist[k - 1].frame)[1]) = 1
            /\ hist[k].db = hist[k - 2].db

(***************************************************************************)
(* The command line of the daily-data scraper                              *)
(* (scrape_hse_data.py:343-427, update_daily 317-340).                     *)
(*                                                                         *)
(* args holds mode, the options --date, --start-date and --end-date (Null  *)
(* when not given) and the flags --csv and --clean-duplicates.             *)
(***************************************************************************)
\* datetime.now().strftime('%d/%m/%Y') (line 329), the day of the run
Today == "15/01/2026"

CliDates == <<"28/02/2024", "29/02/2024">>

CliArgs ==
    [mode : {"daily", "date", "range"},
     date : {Null, Some(Today)},
     start_date : {Null} \cup {Some(CliDates[k]) : k \in 1..Len(CliDates)},
     end_date : {Null} \cup {Some(CliDates[k]) : k \in 1..Len(CliDates)},
     csv : BOOLEAN,
     clean_duplicates : BOOLEAN]

\* what a fetch of the remote service comes to: an exception of requests.get or
\* raise_for_status, or a page
CliOutcomes == {[raised |-> TRUE, lay |-> [table |-> FALSE, rows |-> <<>>, segs |-> <<>>]]}
               \cup {[raised |-> FALSE, lay |-> l] : l \in RangeLayouts("daily")}

InitCli ==
    /\ args \in CliArgs
    /\ cdf = [kind |-> "unset", rows |-> <<>>]
    /\ exit_status = Null
    /\ cpc = "dispatch"
    /\ csv_file \in {Null, save_to_csv(Null, OneRecord("Mayo Hospital", "full"))}
    /\ db_table \in {Null, save_to_sqlite(Null, OneRecord("Mayo Hospital", "full"))}
    /\ hist = <<>>
    /\ IdleClassifier
    /\ IdleAnalysis
    /\ IdleScraper
    /\ IdleRange

\* exit(1): SystemExit is no Exception, the except clause of line 423 lets it pass
Exit(status) == exit_status' = Some(status) /\ cpc' = "exited"

\* lines 360, 372-376, 390-394: the mode is looked at and its options checked
CliDispatch ==
    /\ cpc = "dispatch"
    /\ IF args.mode = "daily" THEN cpc' = "scrape" /\ UNCHANGED exit_status
       ELSE IF args.mode = "date"
            THEN (IF IsNull(args.date) THEN Exit(1)
                  ELSE cpc' = "scrape" /\ UNCHANGED exit_status)
       ELSE (IF IsNull(args.start_date) \/ IsNull(args.end_date) THEN Exit(1)
             ELSE cpc' = "range" /\ UNCHANGED exit_status)
    /\ UNCHANGED <<args, cdf, storeVars>>
    /\ UNCHANGED <<classifierVars, analysisVars, scraperVars, rangeVars>>

\* the date modes daily and date scrape
CliDate == IF args.mode = "daily" THEN Today ELSE Val(args.date)

\* lines 332, 382: df = scrape_hse_trolleygar(date) returns, a frame or None
CliScrape ==
    /\ cpc = "scrape"
    /\ \E lay \in RangeLayouts("daily") :
        cdf' = scrape_hse_trolleygar(CliDate, PageOf(lay, "daily"))
    /\ cpc' = "save"
    /\ UNCHANGED <<args, exit_status, storeVars>>
    /\ UNCHANGED <<classifierVars, analysisVars, scraperVars, rangeVars>>

\* lines 40-41: requests.get or raise_for_status raises; nothing catches the
\* exception before line 423, which prints it and calls exit(1)
CliScrapeRaise ==
    /\ cpc = "scrape"
    /\ Exit(1)
    /\ UNCHANGED <<args, cdf, storeVars>>
    /\ UNCHANGED <<classifierVars, analysisVars, scraperVars, rangeVars>>

\* lines 334-338, 384-388: a frame is saved, to the CSV file with --csv
CliSave ==
    /\ cpc = "save"
    /\ IF cdf.kind # "frame" THEN UNCHANGED <<csv_file, db_table>>
       ELSE IF args.csv
            THEN csv_file' = save_to_csv(csv_file, cdf.rows) /\ UNCHANGED db_table
       ELSE db_table' = save_to_sqlite(db_table, cdf.rows) /\ UNCHANGED csv_file
    /\ cpc' = "clean"
    /\ UNCHANGED <<args, cdf, exit_status, hist>>
    /\ UNCHANGED <<classifierVars, analysisVars, scraperVars, rangeVars>>

RECURSIVE RangeFrames(_, _, _, _)
\* scrape_date_range, lines 211-221: all_dfs after the loop from date cur on, the
\* k-th fetch of the loop coming to outs[k]
RangeFrames(cur, end, outs, k) ==
    IF ~DateLeq(cur, end) THEN <<>>
    ELSE LET got == IF outs[k].raised THEN Raised
                    ELSE scrape_hse_trolleygar(Strftime(cur), PageOf(outs[k].lay, "daily"))
         IN  (IF got.kind = "frame" THEN <<got>> ELSE <<>>)
             \o RangeFrames(NextDay(cur), end, outs, k + 1)

\* line 400: df = scrape_date_range(args.start_date, args.end_date, args.output),
\* which saves what it collected to the database (lines 223-227)
CliRange ==
    /\ cpc = "range"
    /\ \E outs \in [1..Len(CliDates) -> CliOutcomes] :
        LET all_dfs == RangeFrames(Strptime(Val(args.start_date)),
                                   Strptime(Val(args.end_date)), outs, 1)
        IN  IF Len(all_dfs) > 0
            THEN /\ cdf' = Frame(ConcatRows(all_dfs))
                 /\ db_table' = save_to_sqlite(db_table, ConcatRows(all_dfs))
            ELSE /\ cdf' = None
                 /\ UNCHANGED db_table
    /\ cpc' = "clean"
    /\ UNCHANGED <<args, exit_status, csv_file, hist>>
    /\ UNCHANGED <<classifierVars, analysisVars, scraperVars, rangeVars>>

\* lines 403-407: with --clean-duplicates and without --csv the duplicates are
\* removed; when the database has no table the first query raises (line 289)
\* and line 423 ends the process with exit(1)
CliClean ==
    /\ cpc = "clean"
    /\ IF args.clean_duplicates /\ ~args.csv
       THEN IF IsNull(db_table)
            THEN Exit(1) /\ UNCHANGED db_table
            ELSE /\ db_table' = remove_duplicates_from_db(db_table)
                 /\ cpc' = "preview" /\ UNCHANGED exit_status
       ELSE cpc' = "preview" /\ UNCHANGED <<exit_status, db_table>>
    /\ UNCHANGED <<args, cdf, csv_file, hist>>
    /\ UNCHANGED <<classifierVars, analysisVars, scraperVars, rangeVars>>

\* lines 410-421: the preview is printed and the process ends
CliPreview ==
    /\ cpc = "preview"
    /\ Exit(0)
    /\ UNCHANGED <<args, cdf, storeVars>>
    /\ UNCHANGED <<classifierVars, analysisVars, scraperVars, rangeVars>>

NextCli ==
    CliDispatch \/ CliScrape \/ CliScrapeRaise \/ CliSave \/ CliRange \/ CliClean \/ CliPreview

SpecCli == InitCli /\ [][NextCli]_vars

\* a configuration error: date mode without --date, range mode without
\* --start-date or --end-date
ConfigError(a) ==
    \/ a.mode = "date" /\ IsNull(a.date)
    \/ a.mode = "range" /\ (IsNull(a.start_date) \/ IsNull(a.end_date))

\* C22: the process exits with a non-zero status only for a configuration
\* error; a fetch failure or a structural parse failure (no table, no master
\* row) for a date, in daily, date or range mode, never causes a non-zero exit.
C22_NonZeroExitOnlyForConfig ==
    (~IsNull(exit_status) /\ Val(exit_status) # 0) => ConfigError(args)

(***************************************************************************)
(* The while loops of the two cursor-driven decoders, iteration by         *)
(* iteration (scrape_hse_data.py:78-135, scrape_colors.py:171-227).        *)
(***************************************************************************)
\* the cells the loop of the mode runs over: the master row, or all cells of the table
DecodedCells ==
    IF ~layout.table THEN <<>>
    ELSE IF mode = "daily"
         THEN (IF IsNull(master_data_row(page)) THEN <<>>
               ELSE Val(page.table)[Val(master_data_row(page))])
    ELSE Flatten(Val(page.table))

\* one iteration of the loop of the mode with the cursor at i and no data yet:
\* the cursor after it and the records it appended
DecodeStep(cells, i) ==
    IF mode = "daily" THEN MasterStep(cells, [i |-> i, data |-> <<>>])
    ELSE V2Step(reportDate, cells, [i |-> i, data |-> <<>>])

RECURSIVE LoopCursors(_, _)
\* the values of the cursor at the head of the iterations of the loop, from i on
LoopCursors(cells, i) ==
    IF i >= Len(cells) THEN {}
    ELSE {i} \cup LoopCursors(cells, DecodeStep(cells, i).i)

\* the scan of a table by the master-row scan or by scrape_with_colors_v2 is over
Decoded == phase = "done" /\ mode \in {"daily", "v2"} /\ layout.table

\* C23: a cell the cursor comes to is treated as an entity boundary if and only
\* if its span is >= 8 and its text is non-empty: on any other cell, a wide
\* cell with empty text included, the cursor moves on by exactly one cell and
\* no following cell is consumed, in the master-row scan and in
\* scrape_with_colors_v2; and a wide cell with empty text does not count toward
\* the 50 of the master row.
C23_WideEmptyIsFiller ==
    Decoded =>
        LET rows == Val(page.table)
            cells == DecodedCells
        IN  /\ mode = "daily" =>
                  \A r \in 3..Len(rows) : hospital_count(rows[r]) = BoundaryCount(rows[r])
            /\ \A i \in LoopCursors(cells, 0) :
                  ~EntityBoundary(cells[i + 1]) =>
                      DecodeStep(cells, i) = [i |-> i + 1, data |-> <<>>]

\* the cursor after the name cell at cursor i and at most one empty cell after it
BlockStart(cells, i) ==
    IF i + 1 < Len(cells) /\ Strip(cells[i + 2].text) = "" THEN i + 2 ELSE i + 1

\* the record of the name cell at cursor i whose block starts at cursor j: the
\* cell at block position p is cells[j + 1 + p]
PositionalRecord(cells, i, j) ==
    IF mode = "daily"
    THEN [Hospital |-> Strip(cells[i + 1].text),
          ED_Trolleys |-> FieldOf(cells[j + 1].text),
          Ward_Trolleys |-> FieldOf(cells[j + 2].text),
          Total_Trolleys |-> FieldOf(cells[j + 3].text),
          Surge_Capacity_in_Use |-> FieldOf(cells[j + 5].text),
          Delayed_Transfers_of_Care |-> FieldOf(cells[j + 7].text),
          Total_Waiting_gt_24hrs |-> FieldOf(cells[j + 9].text),
          Age_75plus_Waiting_gt_24hrs |-> FieldOf(cells[j + 11].text)]
    ELSE [date |-> reportDate,
          hospital |-> Strip(cells[i + 1].text),
          ed_trolleys |-> FieldOf(cells[j + 1].text),
          ward_trolleys |-> FieldOf(cells[j + 2].text),
          total_trolleys |-> FieldOf(cells[j + 3].text),
          total_color |-> extract_color(cells[j + 3].class),
          surge |-> FieldOf(cells[j + 5].text),
          delayed |-> FieldOf(cells[j + 7].text),
          delayed_color |-> extract_color(cells[j + 7].class),
          gt_24hrs |-> FieldOf(cells[j + 9].text),
          gt_75_24hrs |-> FieldOf(cells[j + 11].text)]

\* C24: with the cursor at an entity boundary that is no regional header (any
\* such cell, reached by the loop or not) the decoder skips at
\* most one empty cell right after the name, then reads the next cellsPerEntity
\* cells (11 in the master-row scan, 12 in scrape_with_colors_v2), fewer when
\* the cells run out; a record it emits holds ED, Ward, Total, Surge, Delayed,
\* >24h and >75&>24h from block positions 0, 1, 2, 4, 6, 8 and 10, the Total
\* colour of the cell at position 2, null for an empty text, and nothing of
\* positions 3, 5, 7, 9 and 11.
C24_BlockPositions ==
    Decoded =>
        LET cells == DecodedCells
        IN  \A i \in 0..(Len(cells) - 1) :
                (EntityBoundary(cells[i + 1]) /\ ~RegionalHeaderName(Text(cells[i + 1]))) =>
                    LET j == BlockStart(cells, i)
                        n == Min2(CellsPerEntity(mode), Len(cells) - j)
                        out == DecodeStep(cells, i)
                    IN  /\ out.i = j + n
                        /\ Len(out.data) <= 1
                        /\ Len(out.data) = 1 =>
                              /\ n >= 11
                              /\ out.data[1] = PositionalRecord(cells, i, j)

\* scrape_with_colors_v2 has decoded a row of two entities: National Total with
\* a spacer and an empty ED cell, then Beaumont Hospital with no spacer and a
\* block whose cells at positions 3, 5, 7, 9 and 11 hold texts and colours.
C24_Witness ==
    /\ Decoded /\ mode = "v2"
    /\ layout.rows = <<"tail">>
    /\ layout.segs = <<Wide("National Total", TRUE, "noED"),
                       Wide("Beaumont Hospital", FALSE, "dense")>>
    /\ Len(returned.rows) = 2
    /\ returned.rows[1].ed_trolleys = Null /\ returned.rows[1].total_color = "green"
    /\ returned.rows[2].surge = Some("2") /\ returned.rows[2].total_color = "amber"
    /\ returned.rows[2].gt_75_24hrs = Some("1")

\* the names of the entity boundaries of cells that are no regional headers,
\* left to right
NonHeaderBoundaryNames(cells) ==
    LET Keep(cell) == EntityBoundary(cell) /\ ~RegionalHeaderName(Text(cell))
        kept == SelectSeq(cells, Keep)
    IN  [k \in 1..Len(kept) |-> Text(kept[k])]

RECURSIVE Embeds(_, _, _, _)
\* a from position ka on is a subsequence of b from position kb on
Embeds(a, b, ka, kb) ==
    IF ka > Len(a) THEN TRUE
    ELSE IF kb > Len(b) THEN FALSE
    ELSE IF a[ka] = b[kb] THEN Embeds(a, b, ka + 1, kb + 1)
    ELSE Embeds(a, b, ka, kb + 1)

\* every iteration of the loop, from whatever cursor, moves the cursor forward
\* and not past the number of cells: the loop ends within len(cells) iterations
CursorAdvances ==
    Decoded =>
        LET cells == DecodedCells
        IN  \A i \in 0..(Len(cells) - 1) :
                LET next == DecodeStep(cells, i).i
                IN  next > i /\ next <= Len(cells)

\* C25: both cursor-driven decoders terminate on any finite cell sequence: the
\* cursor strictly increases on every iteration and never exceeds the number of
\* cells (so the cells read by two iterations do not overlap), the number of
\* records is at most the number of entity boundaries that are no regional
\* headers, and the names of the records follow the left-to-right order of
\* those boundary cells.
C25_DecodersTerminate ==
    /\ CursorAdvances
    /\ Decoded =>
          LET names == NonHeaderBoundaryNames(DecodedCells)
          IN  /\ Len(returned.rows) <= Len(names)
              /\ Embeds([k \in 1..Len(returned.rows) |-> RecordName(returned.rows[k])],
                        names, 1, 1)

====
